---- MODULE Spec2Model ----
(***************************************************************************)
(* The video processing pipeline of turbulence: the Cloud Function         *)
(* process_video (cloud-functions/video-processor/main.py), its status     *)
(* synchronizer (update_processing_job / update_via_mongodb), the status    *)
(* routes of the backend (backend/handlers/video_processing.py) and the    *)
(* upload acceptance that creates the job record                           *)
(* (backend/handlers/uploads.py).                                          *)
(*                                                                         *)
(* Under Spec one behaviour is one invocation of process_video for one     *)
(* finalization event.  Under SpecEvents a second event follows, for the   *)
(* same object or for another upload, and process_video_file inserts the   *)
(* job records while the pipeline runs.  Every external call (tool process,*)
(* blob store, HTTP, datastore) is a step whose outcome is chosen from a   *)
(* small set.                                                              *)
(***************************************************************************)
EXTENDS Integers, Sequences, FiniteSets, TLC

VARIABLES
    file_name,          \* data["name"] of the cloud event
    ffprobe,            \* state of the ffprobe binary in the container
    pc,                 \* position of the invocation inside process_video
    temp_dir,           \* the local variable temp_dir ("None" until mkdtemp returns)
    disk,               \* scratch directories existing on the local disk (rmtree
                        \* removes a directory with whatever files it holds)
    probe_out,          \* what ffmpeg.probe answered (NoProbe until it is called)
    metadata,           \* result of extract_video_metadata (NoMetadata until then)
    thumbnails,         \* list built by generate_thumbnails
    thumb_i,            \* loop index of generate_thumbnails
    processed_formats,  \* list built by transcode_video
    rung_i,             \* loop index of transcode_video
    exc,                \* exception in flight ("None" when there is none)
    caught,             \* exception bound to e by "except Exception as e" (line 102)
    result,             \* "running", "returned" or "raised"
    jobs,               \* the collection video_processing_jobs
    jobs0,              \* the collection when the event was delivered
    blobs,              \* keys of the source objects and of the derived assets
                        \* published in the bucket
    now,                \* the clock read by datetime.now
    tool_log,           \* external tool processes started, in order
    downloads,          \* number of blob downloads
    calls,              \* calls of update_processing_job, in order
    invocation,         \* number of the event being handled (1 for the first)
    inserting,          \* keys uploaded by process_video_file whose job record
                        \* it has not inserted yet
    item_outcomes,      \* outcomes the media tool and the bucket can produce
    writes,             \* derived blobs published so far, with their source key
    last_write,         \* the last write a client of the job collection made
                        \* outside process_video (NoWrite when there is none)
    slug,               \* the state of one call of generate_unique_slug
    pending             \* finalization events of published derived blobs that
                        \* have not been delivered yet

vars == << file_name, ffprobe, pc, temp_dir, disk, probe_out, metadata, thumbnails,
           thumb_i, processed_formats, rung_i, exc, caught, result, jobs, jobs0,
           blobs, now, tool_log, downloads, calls, invocation, inserting,
           item_outcomes, writes, last_write, slug, pending >>

----------------------------------------------------------------------------
(* Object keys.  A key is its directory components, the stem of its last    *)
(* component and that component's extension, as Path(key) splits it.        *)

Key(dir, stem, ext) == [dir |-> dir, stem |-> stem, ext |-> ext]

\* A stem is the sequence of the string fragments it is formatted from.
ClipMp4 == Key(<<"uploads">>, <<"clip">>, ".mp4")
ClipMov == Key(<<"uploads">>, <<"clip">>, ".MOV")
DocPdf == Key(<<"uploads">>, <<"doc">>, ".pdf")
InputVideoMp4 == Key(<<"uploads">>, <<"input_video">>, ".mp4")

\* the object keys a finalization event may carry
TriggerKeys ==
    { ClipMp4, ClipMov, DocPdf, InputVideoMp4,
      Key(<<"videos">>, <<"clip">>, ".mp4"),
      Key(<<"thumbnails">>, <<"clip", "_thumb_", "0">>, ".jpg"),
      Key(<<"processed">>, <<"clip", "_720p">>, ".mp4") }

\* str.lower() on the extensions that occur
Lower(ext) == IF ext = ".MOV" THEN ".mov" ELSE ext

\* file_name.startswith("uploads/")
StartsWithUploads(k) == Len(k.dir) >= 1 /\ k.dir[1] = "uploads"

video_extensions == { ".mp4", ".mov", ".avi", ".mkv", ".webm", ".quicktime" }

is_video_file(k) == \E e \in video_extensions : Lower(k.ext) = e

\* the filter of process_video: TRUE when the event is skipped
Skipped(k) == ~StartsWithUploads(k) \/ ~is_video_file(k)

----------------------------------------------------------------------------
(* The ffprobe binary and verify_ffmpeg_availability.                       *)

FfprobeStates == { "ok", "missing", "broken" }

\* subprocess.run starts a process unless the binary is not found
StartsProcess(state) == state # "missing"

verify_ffmpeg_availability(state) == state = "ok"

----------------------------------------------------------------------------
(* The job collection.                                                      *)

\* A message is the sequence of its non-empty fragments; "" is << >>.
EmptyStr == << >>
Frag(s) == IF s = "" THEN << >> ELSE << s >>

\* str(uuid.uuid4()): a fresh identifier per job
JobIdOf(k) == IF k = ClipMp4 THEN "job-1" ELSE "job-2"

\* the document process_video_file inserts at upload acceptance
PendingJob(k) ==
    [ job_id |-> JobIdOf(k),
      original_file |-> k,
      status |-> "pending",
      created_at |-> 0,
      updated_at |-> 0,
      metadata |-> [ duration_seconds |-> 0, width |-> 1280, height |-> 720,
                     file_size |-> 1000, content_type |-> "video/mp4",
                     upload_time |-> 0 ],
      thumbnail_options |-> << >>,
      selected_thumbnail_id |-> "",
      processed_formats |-> << >>,
      error_message |-> EmptyStr ]

\* the documents a filter {field: value} selects
Selected(coll, field, value) == { j \in coll : j[field] = value }

Matching(coll, original_file) == Selected(coll, "original_file", original_file)

\* update_one with {"$push": ...} for the list fields: the new entries are
\* appended to the stored list
update_one_Push(coll, field, value, fields) ==
    LET m == Selected(coll, field, value) IN
    IF m = {} THEN [ coll |-> coll, matched_count |-> 0 ]
    ELSE LET j == CHOOSE x \in m : TRUE
             pushed == { "thumbnail_options", "processed_formats" } \cap DOMAIN fields
         IN  [ coll |-> (coll \ {j}) \cup
                        { [ f \in pushed |-> j[f] \o fields[f] ] @@ fields @@ j },
               matched_count |-> 1 ]

\* delete_one in the place of update_one: the matching record is removed
update_one_Delete(coll, field, value, fields) ==
    LET m == Selected(coll, field, value) IN
    IF m = {} THEN [ coll |-> coll, matched_count |-> 0 ]
    ELSE LET j == CHOOSE x \in m : TRUE IN
         [ coll |-> coll \ {j}, matched_count |-> 1 ]

\* collection.update_one({field: value}, {"$set": fields}): no upsert
update_one(coll, field, value, fields) ==
    LET m == Selected(coll, field, value) IN
    IF m = {} THEN [ coll |-> coll, matched_count |-> 0 ]
    ELSE LET j == CHOOSE x \in m : TRUE IN
         [ coll |-> (coll \ {j}) \cup { fields @@ j }, matched_count |-> 1 ]

----------------------------------------------------------------------------
(* Media Prober: ffmpeg.probe and extract_video_metadata.                   *)

\* an optional field of the probe's JSON: {} when absent, {v} when present
Absent == {}
Get(opt, default) == IF opt = {} THEN default ELSE CHOOSE v \in opt : TRUE

VideoStream(w, h) == [ codec_type |-> "video", width |-> w, height |-> h ]
AudioStream == [ codec_type |-> "audio", width |-> Absent, height |-> Absent ]

\* a stream whose JSON object has no "codec_type" key (a stream of unknown
\* media type): stream["codec_type"] raises KeyError
NoCodecType == "KeyError: codec_type"
UntypedStream == [ codec_type |-> NoCodecType, width |-> Absent, height |-> Absent ]

ProbeData(streams, duration, size) ==
    [ kind |-> "data", streams |-> streams,
      format |-> [ duration |-> duration, size |-> size ], stderr |-> "" ]

\* ffmpeg.probe raising ffmpeg.Error with the given stderr
ProbeError(stderr) ==
    [ kind |-> "ffmpeg_error", streams |-> << >>,
      format |-> [ duration |-> Absent, size |-> Absent ], stderr |-> stderr ]

\* what ffmpeg.probe may answer for the downloaded file
ProbeOutputs ==
    { ProbeData(<<AudioStream, VideoStream({1920}, {1080})>>, {20}, {1000}),
      ProbeData(<<VideoStream({640}, {360})>>, {4}, {500}),
      ProbeData(<<VideoStream(Absent, Absent)>>, Absent, Absent),
      ProbeData(<<AudioStream>>, {20}, {1000}),
      ProbeData(<<UntypedStream, VideoStream({1920}, {1080})>>, {20}, {1000}),
      ProbeData(<< >>, Absent, Absent),
      ProbeError("Invalid data found when processing input"),
      ProbeError("") }

\* the for loop of lines 150-153: index of the first video stream, 0 if none
FirstVideo(streams) ==
    IF \E i \in 1..Len(streams) : streams[i].codec_type = "video"
    THEN CHOOSE i \in 1..Len(streams) :
            /\ streams[i].codec_type = "video"
            /\ \A j \in 1..(i-1) : streams[j].codec_type # "video"
    ELSE 0

\* the loop stops at the first video stream (break); it subscripts
\* "codec_type" in every stream it reaches
SubscriptFails(streams) ==
    LET v == FirstVideo(streams)
        last == IF v = 0 THEN Len(streams) ELSE v
    IN  \E i \in 1..last : streams[i].codec_type = NoCodecType

Raise(msg) == [ raised |-> TRUE, error |-> msg, value |-> << >> ]
Return(v) == [ raised |-> FALSE, error |-> EmptyStr, value |-> v ]

\* extract_video_metadata without the check of lines 155-156: a probe
\* without a video stream yields zeroed metadata
extract_video_metadata_NoStreamCheck(probe, t) ==
    IF probe.kind = "ffmpeg_error"
    THEN Raise(<<"Failed to extract video metadata: ">> \o Frag(probe.stderr))
    ELSE Return([ duration_seconds |-> Get(probe.format.duration, 0),
                  width |-> 0, height |-> 0,
                  file_size |-> Get(probe.format.size, 0),
                  content_type |-> "video/mp4", upload_time |-> t ])

extract_video_metadata(probe, t) ==
    IF probe.kind = "ffmpeg_error"
    THEN \* except ffmpeg.Error: stderr if there is any, else str(e)
         Raise(<<"Failed to extract video metadata: ">> \o
               (IF probe.stderr # "" THEN Frag(probe.stderr)
                ELSE <<"ffprobe error (see stderr output for detail)">>))
    ELSE LET v == FirstVideo(probe.streams) IN
         IF SubscriptFails(probe.streams)
         THEN \* KeyError at line 151, wrapped by except Exception
              Raise(<<"Failed to extract video metadata: ", "'codec_type'">>)
         ELSE IF v = 0
         THEN \* ValueError("No video stream found"), wrapped by except Exception
              Raise(<<"Failed to extract video metadata: ", "No video stream found">>)
         ELSE Return([ duration_seconds |-> Get(probe.format.duration, 0),
                       width |-> Get(probe.streams[v].width, 0),
                       height |-> Get(probe.streams[v].height, 0),
                       file_size |-> Get(probe.format.size, 0),
                       content_type |-> "video/mp4",
                       upload_time |-> t ])

----------------------------------------------------------------------------
(* Status Synchronizer: update_processing_job, update_via_mongodb, and the  *)
(* backend handler behind PATCH /video-processing/jobs/by-file.             *)

\* outcomes of one datastore operation
MongoOutcomes == { "ok", "error" }

PyMongoError == <<"pymongo error">>

\* update_via_mongodb with upsert=True: a missing document is inserted
update_via_mongodb_Upsert(coll, original_file, update_data, t, m) ==
    LET data == [ updated_at |-> t ] @@ update_data
        r == update_one(coll, "original_file", original_file, data)
        call(raised, matched) ==
            [ original_file |-> original_file, update_data |-> data,
              raised |-> raised, matched_count |-> matched ]
    IN  IF m = "error"
        THEN [ coll |-> coll, raised |-> TRUE, error |-> PyMongoError,
               args |-> call(TRUE, 0) ]
        ELSE [ coll |-> IF r.matched_count = 0
                        THEN coll \cup { [ original_file |-> original_file ] @@ data }
                        ELSE r.coll,
               raised |-> FALSE, error |-> EmptyStr,
               args |-> call(FALSE, r.matched_count) ]

\* update_via_mongodb: sets update_data["updated_at"], update_one without
\* upsert, warns on matched_count == 0, logs and re-raises any exception
update_via_mongodb(coll, original_file, update_data, t, m) ==
    LET data == [ updated_at |-> t ] @@ update_data
        r == update_one(coll, "original_file", original_file, data)
        call(raised, matched) ==
            [ original_file |-> original_file, update_data |-> data,
              raised |-> raised, matched_count |-> matched ]
    IN  IF m = "error"
        THEN [ coll |-> coll, raised |-> TRUE, error |-> PyMongoError,
               args |-> call(TRUE, 0) ]
        ELSE [ coll |-> r.coll, raised |-> FALSE, error |-> EmptyStr,
               args |-> call(FALSE, r.matched_count) ]

\* update_video_processing_job_by_file: 200 when a document matched, 404 when
\* none did, 500 when the datastore raised
update_video_processing_job_by_file(coll, original_file, update_data, t, m) ==
    LET update_fields == [ updated_at |-> t ] @@ update_data
        r == update_one(coll, "original_file", original_file, update_fields)
    IN  IF m = "error" THEN [ coll |-> coll, status_code |-> 500 ]
        ELSE IF r.matched_count = 0 THEN [ coll |-> coll, status_code |-> 404 ]
        ELSE [ coll |-> r.coll, status_code |-> 200 ]

\* the fields of the request model VideoProcessingJobUpdate
VideoProcessingJobUpdateFields ==
    { "status", "thumbnail_options", "selected_thumbnail_id", "processed_formats",
      "error_message" }

\* update_video_processing_job, the handler of PATCH /video-processing/jobs/{job_id}:
\* the body is parsed as VideoProcessingJobUpdate (other keys are dropped, absent
\* fields are None and excluded), the document is selected by job_id
update_video_processing_job(coll, job_id, body, t, m) ==
    LET keep == DOMAIN body \cap VideoProcessingJobUpdateFields
        update_fields == [ updated_at |-> t ] @@ [ f \in keep |-> body[f] ]
        r == update_one(coll, "job_id", job_id, update_fields)
    IN  IF m = "error" THEN [ coll |-> coll, status_code |-> 500 ]
        ELSE IF r.matched_count = 0 THEN [ coll |-> coll, status_code |-> 404 ]
        ELSE [ coll |-> r.coll, status_code |-> 200 ]

\* requests.patch(json=...) serializes the body with json.dumps, which raises
\* TypeError on a datetime: the metadata of line 163 carries upload_time
JsonSerializable(update_data) == "metadata" \notin DOMAIN update_data

\* A URL path is the sequence of its segments.
PathParam == "{job_id}"
JobsByFilePath == << "video-processing", "jobs", "by-file" >>

Route(method, path, endpoint) ==
    [ method |-> method, path |-> path, endpoint |-> endpoint ]

\* the routes of the video processing router, in the order the decorators
\* register them
Routes ==
    << Route("POST", << "video-processing", "jobs" >>, "create_video_processing_job"),
       Route("PATCH", << "video-processing", "jobs", PathParam >>,
             "update_video_processing_job"),
       Route("PATCH", JobsByFilePath, "update_video_processing_job_by_file"),
       Route("GET", << "video-processing", "jobs", PathParam >>,
             "get_video_processing_job"),
       Route("GET", << "video-processing", "jobs" >>, "list_video_processing_jobs"),
       Route("POST", << "video-processing", "jobs", PathParam, "select-thumbnail" >>,
             "select_thumbnail"),
       Route("DELETE", << "video-processing", "jobs", PathParam >>,
             "delete_video_processing_job") >>

\* a route matches a request of its method whose path has the same segments,
\* a path parameter standing for any one segment
RouteMatches(route, method, path) ==
    /\ route.method = method
    /\ Len(route.path) = Len(path)
    /\ \A i \in 1..Len(path) : route.path[i] = PathParam \/ route.path[i] = path[i]

\* the router serves a request with the first route that matches; 0 if none
Dispatch(method, path) ==
    IF \E i \in 1..Len(Routes) : RouteMatches(Routes[i], method, path)
    THEN CHOOSE i \in 1..Len(Routes) :
            /\ RouteMatches(Routes[i], method, path)
            /\ \A j \in 1..(i-1) : ~RouteMatches(Routes[j], method, path)
    ELSE 0

\* what requests.patch may do: raise (timeout, connection error, body not
\* serializable); reach the backend, whose router dispatches the request;
\* reach the backend while its datastore fails; or be answered 204 by the
\* server behind API_BASE_URL
ApiOutcomes == { "exception", "handled", "handler_db_error", "no_content" }

PossibleApiOutcomes(update_data) ==
    IF JsonSerializable(update_data) THEN ApiOutcomes ELSE { "exception" }

Response(raised, status_code, endpoint, coll) ==
    [ raised |-> raised, status_code |-> status_code, endpoint |-> endpoint,
      coll |-> coll ]

\* the primary call, PATCH {API_BASE_URL}/video-processing/jobs/by-file with
\* the body {"original_file": ..., "update_data": ...}
requests_patch(coll, original_file, update_data, t, api) ==
    IF api = "exception" THEN Response(TRUE, 0, "none", coll)
    ELSE IF api = "no_content" THEN Response(FALSE, 204, "none", coll)
    ELSE LET r == Dispatch("PATCH", JobsByFilePath)
             endpoint == IF r = 0 THEN "none" ELSE Routes[r].endpoint
             m == IF api = "handler_db_error" THEN "error" ELSE "ok"
         IN  IF endpoint = "update_video_processing_job"
             THEN LET h == update_video_processing_job(
                               coll, JobsByFilePath[3],
                               [ original_file |-> original_file,
                                 update_data |-> update_data ], t, m)
                  IN Response(FALSE, h.status_code, endpoint, h.coll)
             ELSE IF endpoint = "update_video_processing_job_by_file"
             THEN LET h == update_video_processing_job_by_file(
                               coll, original_file, update_data, t, m)
                  IN Response(FALSE, h.status_code, endpoint, h.coll)
             ELSE Response(FALSE, 404, endpoint, coll)

\* IsSuccess that also takes 404 for handled (logged only)
IsSuccess_Or404(status_code) == status_code = 200 \/ status_code = 404

\* line 324: the test that decides whether a response is a success
IsSuccess(status_code) == status_code = 200

\* update_processing_job(original_file, update_data) with the outcome api of
\* the primary call and the outcomes m1, m2 of the datastore operations
update_processing_job(coll, original_file, update_data, t, api, m1, m2) ==
    LET p == requests_patch(coll, original_file, update_data, t, api)
        f1 == update_via_mongodb(p.coll, original_file, update_data, t + 1, m1)
        f2 == update_via_mongodb(p.coll, original_file, update_data, t + 2, m2)
        entry(mongo, raised) ==
            [ original_file |-> original_file, update_data |-> update_data,
              status_code |-> p.status_code, endpoint |-> p.endpoint,
              mongo |-> mongo, raised |-> raised ]
    IN  IF p.raised
        THEN \* except Exception (line 332): one fallback call, not guarded
             [ coll |-> f1.coll, raised |-> f1.raised, error |-> f1.error,
               now |-> t + 2, log |-> entry(<<f1.args>>, f1.raised) ]
        ELSE IF IsSuccess(p.status_code)
        THEN [ coll |-> p.coll, raised |-> FALSE, error |-> EmptyStr,
               now |-> t + 1, log |-> entry(<< >>, FALSE) ]
        ELSE IF ~f1.raised
        THEN \* else branch (line 330), fallback returned
             [ coll |-> f1.coll, raised |-> FALSE, error |-> EmptyStr,
               now |-> t + 2, log |-> entry(<<f1.args>>, FALSE) ]
        ELSE \* the fallback of line 330 raised inside the try: line 332
             \* catches it and line 334 calls the fallback again
             [ coll |-> f2.coll, raised |-> f2.raised, error |-> f2.error,
               now |-> t + 3, log |-> entry(<<f1.args, f2.args>>, f2.raised) ]

----------------------------------------------------------------------------
(* Producers: one iteration of generate_thumbnails and of transcode_video.  *)

\* outcomes of one item: the tool fails, the publication (upload_from_filename,
\* patch) fails, or both succeed
ItemOutcomes == { "ok", "ffmpeg_error", "upload_error" }

\* one run of an external tool; ok tells whether the step that ran it
\* completed (for an item: the extraction and the publication)
ToolRun(tool, op, arg, ok) == [ tool |-> tool, op |-> op, arg |-> arg, ok |-> ok ]

\* generate_thumbnails stopping at the first timestamp that fails
NextTimestamp_AbortOnError(i, o) == IF o = "ok" THEN i + 1 ELSE 5

\* the for loop of line 196: both except clauses end in continue, so the
\* next timestamp follows whatever the outcome o of timestamp i
NextTimestamp(i, o) == i + 1

\* transcode_video stopping at the first rung that fails
NextRung_AbortOnError(i, o) == IF o = "ok" THEN i + 1 ELSE 2

\* the for loop of line 255, likewise
NextRung(i, o) == i + 1

Digit(i) == << "0", "1", "2", "3", "4" >>[i + 1]

\* timestamps of line 192, as tenths of the duration
TimestampTenths == << 1, 3, 5, 7, 9 >>

\* timestamps at 20%, 40%, 60%, 80% and 100% of the duration
TimestampOf_Fifths(duration, i) == duration * 2 * (i + 1)

\* duration * 0.1 etc. for a duration in whole seconds, in tenths of a second
\* (the float products of line 192 are exact for the durations probed here)
TimestampOf(duration, i) == duration * TimestampTenths[i + 1]

\* f"{base_name}_thumb_{i}.jpg" in the scratch directory and under thumbnails/
ThumbnailFile(k, i) == Key(<< >>, k.stem \o << "_thumb_", Digit(i) >>, ".jpg")

\* f"thumbnails/{thumbnail_filename}"
ThumbnailBlob(k, i) ==
    Key(<<"thumbnails">>, ThumbnailFile(k, i).stem, ThumbnailFile(k, i).ext)

Url(blob) == [ prefix |-> "/uploads/", key |-> blob ]

\* the dict appended at lines 217-224; int(timestamp) truncates
ThumbnailOption(k, md, i) ==
    [ id |-> << "thumb_", TimestampOf(md.duration_seconds, i) \div 10, "s" >>,
      url |-> Url(ThumbnailBlob(k, i)),
      timestamp_tenths |-> TimestampOf(md.duration_seconds, i),
      is_custom |-> FALSE ]

\* the ladder of lines 250-253
formats ==
    << [ name |-> "mp4_720p", width |-> 1280, height |-> 720, bitrate |-> 2500,
         suffix |-> "_720p" ],
       [ name |-> "mp4_480p", width |-> 854, height |-> 480, bitrate |-> 1000,
         suffix |-> "_480p" ] >>

\* the output file named without the suffix of its rung
OutputFile_NoSuffix(k, f) == Key(<< >>, k.stem, ".mp4")

\* f"{base_name}{suffix}.mp4" in the scratch directory
OutputFile(k, f) == Key(<< >>, k.stem \o << f.suffix >>, ".mp4")

\* the processed blob published next to the sources
ProcessedBlob_UnderUploads(k, f) ==
    Key(<<"uploads">>, OutputFile(k, f).stem, OutputFile(k, f).ext)

\* f"processed/{output_filename}"
ProcessedBlob(k, f) ==
    Key(<<"processed">>, OutputFile(k, f).stem, OutputFile(k, f).ext)

\* the dict appended at lines 293-300
FormatDescriptor(k, f) ==
    [ format |-> f.name, url |-> Url(ProcessedBlob(k, f)),
      width |-> f.width, height |-> f.height ]

InputFile == Key(<< >>, <<"input_video">>, "")

\* a path as the string it is: its components, the stem's fragments and the
\* extension, in order
PathString(k) == k.dir \o k.stem \o (IF k.ext = "" THEN << >> ELSE << k.ext >>)

\* a derived blob published for the source object with key source
Write(source, blob) == [ source |-> source, blob |-> blob ]

----------------------------------------------------------------------------
(* process_video                                                            *)

\* the try block with transcode_video called before generate_thumbnails
After_TranscodeFirst(step) ==
    CASE step = "mkdtemp" -> "download"
      [] step = "download" -> "probe"
      [] step = "probe" -> "transcode"
      [] step = "transcode" -> "thumbnails"
      [] step = "thumbnails" -> "update_completed"
      [] step = "update_completed" -> "finally"

\* the try block ending after transcode_video, without the status update
After_NoUpdate(step) ==
    CASE step = "mkdtemp" -> "download"
      [] step = "download" -> "probe"
      [] step = "probe" -> "thumbnails"
      [] step = "thumbnails" -> "transcode"
      [] step = "transcode" -> "finally"
      [] step = "update_completed" -> "finally"

\* the statements of the try block (lines 70-100) in program order: the step
\* that follows a step that returned
After(step) ==
    CASE step = "mkdtemp" -> "download"
      [] step = "download" -> "probe"
      [] step = "probe" -> "thumbnails"
      [] step = "thumbnails" -> "transcode"
      [] step = "transcode" -> "update_completed"
      [] step = "update_completed" -> "finally"

\* no write by another client, no call of generate_unique_slug
NoWrite == [ op |-> "none" ]
NoSlug == [ pc |-> "none" ]

NoProbe == [ kind |-> "none" ]
NoMetadata == [ none |-> TRUE ]
NoExc == [ set |-> FALSE, origin |-> "none", msg |-> EmptyStr ]
Exc(origin, msg) == [ set |-> TRUE, origin |-> origin, msg |-> msg ]

\* CompletedUpdate reporting "failed" when no derived asset was produced
CompletedUpdate_FailedWhenEmpty(md, thumbs, fmts) ==
    [ status |-> IF thumbs = << >> /\ fmts = << >> THEN "failed" ELSE "completed",
      metadata |-> md, thumbnail_options |-> thumbs, processed_formats |-> fmts ]

\* FailedUpdate that also resets the lists of derived assets
FailedUpdate_ResetsAssets(e) ==
    [ status |-> "failed", error_message |-> e.msg,
      thumbnail_options |-> << >>, processed_formats |-> << >> ]

\* the payloads of lines 92-97 and 105
CompletedUpdate(md, thumbs, fmts) ==
    [ status |-> "completed", metadata |-> md,
      thumbnail_options |-> thumbs, processed_formats |-> fmts ]
FailedUpdate(e) == [ status |-> "failed", error_message |-> e.msg ]

\* the job records upload acceptance may have created before the event
InitialCollections == { {}, { PendingJob(ClipMp4), PendingJob(ClipMov) } }

Init ==
    /\ file_name \in TriggerKeys
    /\ ffprobe \in FfprobeStates
    /\ jobs \in InitialCollections
    /\ jobs0 = jobs
    /\ pc = "verify"
    /\ temp_dir = "None"
    /\ disk = {}
    /\ probe_out = NoProbe
    /\ metadata = NoMetadata
    /\ thumbnails = << >>
    /\ thumb_i = 0
    /\ processed_formats = << >>
    /\ rung_i = 0
    /\ exc = NoExc
    /\ caught = NoExc
    /\ result = "running"
    /\ blobs = { file_name }
    /\ now = 1
    /\ tool_log = << >>
    /\ downloads = 0
    /\ calls = << >>
    /\ invocation = 1
    /\ inserting = {}
    /\ item_outcomes = ItemOutcomes
    /\ writes = {}
    /\ last_write = NoWrite
    /\ slug = NoSlug
    /\ pending = {}

\* lines 60-62: the availability check runs first, for every event
Verify ==
    /\ pc = "verify"
    /\ tool_log' = IF StartsProcess(ffprobe)
                   THEN Append(tool_log, ToolRun("ffprobe", "-version", 0,
                                                verify_ffmpeg_availability(ffprobe)))
                   ELSE tool_log
    /\ IF verify_ffmpeg_availability(ffprobe)
       THEN pc' = "filter" /\ result' = result
       ELSE pc' = "done" /\ result' = "returned"
    /\ UNCHANGED << file_name, ffprobe, invocation, inserting, last_write, slug, pending, item_outcomes, writes,
                    jobs0, temp_dir, disk, probe_out, metadata,
                    thumbnails, thumb_i, processed_formats, rung_i, exc, caught,
                    jobs, blobs, now, downloads, calls >>

\* lines 64-66
Filter ==
    /\ pc = "filter"
    /\ IF Skipped(file_name)
       THEN pc' = "done" /\ result' = "returned"
       ELSE pc' = "mkdtemp" /\ result' = result
    /\ UNCHANGED << file_name, ffprobe, invocation, inserting, last_write, slug, pending, item_outcomes, writes,
                    jobs0, temp_dir, disk, probe_out, metadata,
                    thumbnails, thumb_i, processed_formats, rung_i, exc, caught,
                    jobs, blobs, now, tool_log, downloads, calls >>

\* line 70: tempfile.mkdtemp() returns a fresh directory or raises
Mkdtemp ==
    /\ pc = "mkdtemp"
    /\ \E ok \in BOOLEAN :
         IF ok
         THEN /\ temp_dir' = "tmp"
              /\ disk' = disk \cup { "tmp" }
              /\ pc' = After("mkdtemp")
              /\ exc' = exc
         ELSE /\ exc' = Exc("mkdtemp", <<"No space left on device">>)
              /\ pc' = "except"
              /\ UNCHANGED << temp_dir, disk >>
    /\ UNCHANGED << file_name, ffprobe, invocation, inserting, last_write, slug, pending, item_outcomes, writes,
                    jobs0, probe_out, metadata, thumbnails, thumb_i,
                    processed_formats, rung_i, caught, result, jobs, blobs, now,
                    tool_log, downloads, calls >>

\* lines 72-77: the storage client and the download of the source object
Download ==
    /\ pc = "download"
    /\ \E ok \in BOOLEAN :
         IF ok
         THEN /\ downloads' = downloads + 1
              /\ pc' = After("download")
              /\ exc' = exc
         ELSE /\ exc' = Exc("download", <<"download failed">>)
              /\ pc' = "except"
              /\ UNCHANGED downloads
    /\ UNCHANGED << file_name, ffprobe, invocation, inserting, last_write, slug, pending, item_outcomes, writes,
                    jobs0, temp_dir, disk, probe_out, metadata, thumbnails,
                    thumb_i, processed_formats, rung_i, caught, result, jobs, blobs,
                    now, tool_log, calls >>

\* line 81: extract_video_metadata(input_path)
Probe ==
    /\ pc = "probe"
    /\ \E probe \in ProbeOutputs :
         LET r == extract_video_metadata(probe, now) IN
         /\ probe_out' = probe
         /\ IF r.raised
            THEN /\ exc' = Exc("probe", r.error)
                 /\ pc' = "except"
                 /\ UNCHANGED << metadata, now >>
            ELSE /\ metadata' = r.value
                 /\ now' = now + 1
                 /\ pc' = After("probe")
                 /\ exc' = exc
    /\ tool_log' = Append(tool_log, ToolRun("ffprobe", "probe", 0, pc' # "except"))
    /\ UNCHANGED << file_name, ffprobe, invocation, inserting, last_write, slug, pending, item_outcomes, writes,
                    jobs0, temp_dir, disk, thumbnails,
                    thumb_i, processed_formats, rung_i, caught, result, jobs, blobs,
                    downloads, calls >>

\* line 84: one iteration of the loop of generate_thumbnails (lines 196-234);
\* both except clauses continue with the next timestamp
Thumbnail ==
    /\ pc = "thumbnails"
    /\ \E o \in item_outcomes :
         /\ blobs' = IF o = "ok" THEN blobs \cup { ThumbnailBlob(file_name, thumb_i) }
                     ELSE blobs
         /\ writes' = IF o = "ok"
                      THEN writes \cup { Write(file_name, ThumbnailBlob(file_name, thumb_i)) }
                      ELSE writes
         /\ pending' = IF o = "ok"
                       THEN pending \cup { ThumbnailBlob(file_name, thumb_i) }
                       ELSE pending
         /\ thumbnails' = IF o = "ok"
                          THEN Append(thumbnails,
                                      ThumbnailOption(file_name, metadata, thumb_i))
                          ELSE thumbnails
         /\ tool_log' = Append(tool_log, ToolRun("ffmpeg", "thumbnail", thumb_i, o = "ok"))
         /\ thumb_i' = NextTimestamp(thumb_i, o)
         /\ pc' = IF NextTimestamp(thumb_i, o) = Len(TimestampTenths)
                  THEN After("thumbnails") ELSE pc
    /\ UNCHANGED << file_name, ffprobe, invocation, inserting, last_write, slug, item_outcomes, jobs0,
                    temp_dir, disk, probe_out, metadata, processed_formats,
                    rung_i, exc, caught, result, jobs, now, downloads, calls >>

\* line 87: one iteration of the loop of transcode_video (lines 255-310)
Transcode ==
    /\ pc = "transcode"
    /\ LET f == formats[rung_i + 1] IN
       \E o \in item_outcomes :
         /\ blobs' = IF o = "ok" THEN blobs \cup { ProcessedBlob(file_name, f) }
                     ELSE blobs
         /\ writes' = IF o = "ok"
                      THEN writes \cup { Write(file_name, ProcessedBlob(file_name, f)) }
                      ELSE writes
         /\ pending' = IF o = "ok"
                       THEN pending \cup { ProcessedBlob(file_name, f) }
                       ELSE pending
         /\ processed_formats' = IF o = "ok"
                                 THEN Append(processed_formats,
                                             FormatDescriptor(file_name, f))
                                 ELSE processed_formats
         /\ tool_log' = Append(tool_log, ToolRun("ffmpeg", "transcode", rung_i, o = "ok"))
         /\ rung_i' = NextRung(rung_i, o)
         /\ pc' = IF NextRung(rung_i, o) = Len(formats)
                  THEN After("transcode") ELSE pc
    /\ UNCHANGED << file_name, ffprobe, invocation, inserting, last_write, slug, item_outcomes, jobs0,
                    temp_dir, disk, probe_out, metadata, thumbnails,
                    thumb_i, exc, caught, result, jobs, now, downloads, calls >>

\* lines 90-100: the "completed" update, inside the try block
UpdateCompleted ==
    /\ pc = "update_completed"
    /\ LET data == CompletedUpdate(metadata, thumbnails, processed_formats) IN
       \E api \in PossibleApiOutcomes(data), m1 \in MongoOutcomes, m2 \in MongoOutcomes :
         LET u == update_processing_job(jobs, file_name, data, now, api, m1, m2) IN
         /\ jobs' = u.coll
         /\ now' = u.now
         /\ calls' = Append(calls, u.log)
         /\ IF u.raised
            THEN exc' = Exc("completed_update", u.error) /\ pc' = "except"
            ELSE exc' = exc /\ pc' = After("update_completed")
    /\ UNCHANGED << file_name, ffprobe, invocation, inserting, last_write, slug, pending, item_outcomes, writes,
                    jobs0, temp_dir, disk, probe_out, metadata,
                    thumbnails, thumb_i, processed_formats, rung_i, caught, result,
                    blobs, tool_log, downloads >>

\* lines 102-107: except Exception as e; the "failed" update; raise.
\* An exception of the update replaces e as the exception in flight.
Except ==
    /\ pc = "except"
    /\ caught' = exc
    /\ LET data == FailedUpdate(exc) IN
       \E api \in PossibleApiOutcomes(data), m1 \in MongoOutcomes, m2 \in MongoOutcomes :
         LET u == update_processing_job(jobs, file_name, data, now, api, m1, m2) IN
         /\ jobs' = u.coll
         /\ now' = u.now
         /\ calls' = Append(calls, u.log)
         /\ exc' = IF u.raised THEN Exc("failed_update", u.error) ELSE exc
    /\ pc' = "finally"
    /\ UNCHANGED << file_name, ffprobe, invocation, inserting, last_write, slug, pending, item_outcomes, writes,
                    jobs0, temp_dir, disk, probe_out, metadata,
                    thumbnails, thumb_i, processed_formats, rung_i, result, blobs,
                    tool_log, downloads >>

\* Cleanup with the existence test inverted: the directory is never removed
Cleanup_WrongTest(dir, existing) ==
    IF dir # "None" /\ dir \notin existing THEN existing \ { dir } ELSE existing

\* lines 110-111: the cleanup condition and shutil.rmtree
Cleanup(dir, existing) ==
    IF dir # "None" /\ dir \in existing THEN existing \ { dir } ELSE existing

\* lines 109-112: finally; then the invocation returns or the exception
\* in flight propagates to the caller
Finally ==
    /\ pc = "finally"
    /\ disk' = Cleanup(temp_dir, disk)
    /\ result' = IF exc.set THEN "raised" ELSE "returned"
    /\ pc' = "done"
    /\ UNCHANGED << file_name, ffprobe, invocation, inserting, last_write, slug, pending, item_outcomes, writes,
                    jobs0, temp_dir, probe_out, metadata, thumbnails, thumb_i,
                    processed_formats, rung_i, exc, caught, jobs, blobs, now,
                    tool_log, downloads, calls >>

Next ==
    \/ Verify
    \/ Filter
    \/ Mkdtemp
    \/ Download
    \/ Probe
    \/ Thumbnail
    \/ Transcode
    \/ UpdateCompleted
    \/ Except
    \/ Finally

Spec == Init /\ [][Next]_vars

\* process_video when every external call eventually returns or throws: the
\* statement that is due is eventually executed
SpecFair == Spec /\ WF_vars(Next)

----------------------------------------------------------------------------
(* Several events and upload acceptance.  The bucket delivers finalization  *)
(* events at least once, an invocation that raised is retried, and every    *)
(* upload under uploads/ raises an event of its own; process_video_file     *)
(* uploads the object first and inserts the job record afterwards.          *)

\* events handled in one behaviour
MaxDeliveries == 2

\* the keys process_video_file uploads
UploadedKeys == { ClipMp4, ClipMov }

\* the media tool and the bucket work
HealthyOutcomes == { "ok" }

\* process_video_file after upload_to_gcs returned (lines 220-256): the job
\* document is inserted; an exception is logged and swallowed
process_video_file(coll, k, t, m) ==
    IF m = "error" THEN coll
    ELSE coll \cup { [ PendingJob(k) EXCEPT !.created_at = t, !.updated_at = t,
                                            !.metadata.upload_time = t ] }

InitEvents ==
    /\ file_name \in UploadedKeys
    /\ ffprobe = "ok"
    /\ jobs = {}
    /\ jobs0 = jobs
    /\ pc = "verify"
    /\ temp_dir = "None"
    /\ disk = {}
    /\ probe_out = NoProbe
    /\ metadata = NoMetadata
    /\ thumbnails = << >>
    /\ thumb_i = 0
    /\ processed_formats = << >>
    /\ rung_i = 0
    /\ exc = NoExc
    /\ caught = NoExc
    /\ result = "running"
    /\ blobs = { file_name }
    /\ now = 1
    /\ tool_log = << >>
    /\ downloads = 0
    /\ calls = << >>
    /\ invocation = 1
    /\ inserting = { file_name }
    /\ item_outcomes = HealthyOutcomes
    /\ writes = {}
    /\ last_write = NoWrite
    /\ slug = NoSlug
    /\ pending = {}

\* process_video_file reaches insert_one for an object it has uploaded
InsertJob ==
    /\ \E k \in inserting, m \in MongoOutcomes :
         /\ jobs' = process_video_file(jobs, k, now, m)
         /\ inserting' = inserting \ { k }
    /\ UNCHANGED << file_name, ffprobe, pc, temp_dir, disk, probe_out, metadata,
                    thumbnails, thumb_i, processed_formats, rung_i, exc, caught,
                    result, jobs0, blobs, now, tool_log, downloads, calls,
                    invocation, last_write, slug, pending, item_outcomes, writes >>

\* the previous invocation is over and the next event is delivered: for the
\* same object again, or for an object process_video_file uploads now
Deliver ==
    /\ pc = "done"
    /\ invocation < MaxDeliveries
    /\ invocation' = invocation + 1
    /\ \E k \in UploadedKeys :
         /\ file_name' = k
         /\ blobs' = blobs \cup { k }
         /\ inserting' = IF k \in blobs THEN inserting ELSE inserting \cup { k }
    /\ jobs0' = jobs
    /\ pc' = "verify"
    /\ temp_dir' = "None"
    /\ probe_out' = NoProbe
    /\ metadata' = NoMetadata
    /\ thumbnails' = << >>
    /\ thumb_i' = 0
    /\ processed_formats' = << >>
    /\ rung_i' = 0
    /\ exc' = NoExc
    /\ caught' = NoExc
    /\ result' = "running"
    /\ tool_log' = << >>
    /\ downloads' = 0
    /\ calls' = << >>
    /\ UNCHANGED << ffprobe, disk, jobs, now, last_write, slug, pending, item_outcomes, writes >>

NextEvents ==
    \/ Next
    \/ InsertJob
    \/ Deliver

SpecEvents == InitEvents /\ [][NextEvents]_vars

----------------------------------------------------------------------------
(* Properties.                                                              *)

Finished == pc = "done"

LastCall == calls[Len(calls)]

StatusOf(call) == call.update_data.status

\* the probe answered, and its answer has no video stream the search finds
\* or is a tool failure
ProbeFailed ==
    /\ probe_out # NoProbe
    /\ \/ probe_out.kind = "ffmpeg_error"
       \/ SubscriptFails(probe_out.streams)
       \/ \A i \in 1..Len(probe_out.streams) : probe_out.streams[i].codec_type # "video"

ProbeSucceeded == probe_out # NoProbe /\ ~ProbeFailed

\* the payload fields of a fallback call are the caller's plus updated_at
SamePayload(call, m) ==
    /\ m.original_file = call.original_file
    /\ DOMAIN m.update_data = DOMAIN call.update_data \cup { "updated_at" }
    /\ \A f \in DOMAIN call.update_data : m.update_data[f] = call.update_data[f]

\* C1: once the invocation has returned or raised, the scratch directory it
\* allocated does not exist, whatever the exit path.
C1_ScratchRemoved ==
    Finished => (temp_dir \notin disk /\ disk = {})

\* C1 witness: a scratch directory was allocated, the "completed" update raised
\* inside the try block, the "failed" update raised inside the handler.
C1_Witness ==
    /\ Finished /\ temp_dir = "tmp" /\ result = "raised"
    /\ Len(calls) = 2 /\ calls[1].raised /\ calls[2].raised

C3_ProbeFailureFailsJob ==
    (Finished /\ ProbeFailed) =>
        /\ Len(calls) = 1
        /\ StatusOf(calls[1]) = "failed"
        /\ calls[1].update_data.error_message # EmptyStr
        /\ thumb_i = 0 /\ rung_i = 0
        /\ thumbnails = << >> /\ processed_formats = << >>
        /\ blobs = { file_name }
        /\ \A i \in 1..Len(tool_log) : tool_log[i].tool # "ffmpeg"
        /\ result = "raised"
        /\ ~calls[1].raised =>
              \A j \in Matching(jobs, file_name) :
                 j.status = "failed" /\ j.error_message # EmptyStr

\* C3 witness: the probe answered without any video stream and the job
\* record holds "failed".
C3_Witness ==
    /\ Finished /\ probe_out # NoProbe /\ probe_out.kind = "data"
    /\ ProbeFailed
    /\ \E j \in Matching(jobs, file_name) : j.status = "failed"

\* C4 as stated: with the tool missing or not executable, an event for a video
\* under the upload prefix records "failed" with an error_message and raises.
C4_MissingToolFailsJob ==
    (Finished /\ ffprobe # "ok" /\ ~Skipped(file_name)) =>
        /\ result = "raised"
        /\ Len(calls) >= 1
        /\ StatusOf(LastCall) = "failed"
        /\ LastCall.update_data.error_message # EmptyStr

\* C5 as stated: an event whose key fails the filter has no side effect: no
\* tool process, no scratch directory, no download or upload, no job change.
C5_SkippedHasNoEffect ==
    (Finished /\ Skipped(file_name)) =>
        /\ tool_log = << >>
        /\ temp_dir = "None" /\ disk = {}
        /\ downloads = 0 /\ blobs = { file_name }
        /\ jobs = jobs0 /\ calls = << >>

\* C6 as stated: whenever the pipeline failed, the error that propagates is
\* the one the handler caught, after the "failed" update has been recorded.
C6_OriginalErrorPropagates ==
    (Finished /\ caught.set) =>
        /\ result = "raised"
        /\ exc = caught
        /\ StatusOf(LastCall) = "failed"
        /\ ~LastCall.raised

\* C7 as stated: whenever the primary call throws or answers a non-success
\* response, the fallback is invoked exactly once, with the same key and the
\* same payload fields plus updated_at.
C7_FallbackExactlyOnce ==
    \A i \in 1..Len(calls) :
       calls[i].status_code \notin 200..299 =>
          /\ Len(calls[i].mongo) = 1
          /\ SamePayload(calls[i], calls[i].mongo[1])

\* C8 as stated: for every 2xx response the fallback is not invoked.
C8_Every2xxIsSuccess ==
    \A i \in 1..Len(calls) :
       calls[i].status_code \in 200..299 => calls[i].mongo = << >>

ZeroMatch(i) ==
    /\ calls[i].mongo # << >>
    /\ LET m == calls[i].mongo[Len(calls[i].mongo)] IN
          ~m.raised /\ m.matched_count = 0

\* C10: a fallback write that matches no record returns normally and inserts
\* nothing, and the invocation ends as it would have: a normal return after
\* the "completed" update, the caught error re-raised after the "failed" one.
C10_ZeroMatchIsHarmless ==
    /\ \A i \in 1..Len(calls) : ZeroMatch(i) => ~calls[i].raised
    /\ (Finished /\ calls # << >> /\ \A i \in 1..Len(calls) : ZeroMatch(i)) =>
          /\ jobs = jobs0
          /\ Matching(jobs, file_name) = {}
          /\ Len(calls) = 1
          /\ StatusOf(calls[1]) = "completed" => (result = "returned" /\ ~exc.set)
          /\ StatusOf(calls[1]) = "failed" => (result = "raised" /\ exc = caught)

\* C10 witness: both kinds of invocation ended on a zero-match fallback write;
\* this one is the failed path.
C10_Witness ==
    /\ Finished /\ Len(calls) = 1 /\ ZeroMatch(1)
    /\ StatusOf(calls[1]) = "failed" /\ result = "raised"

----------------------------------------------------------------------------
(* The producers' loops.                                                    *)

\* the runs of one kind in the tool log, in order
Runs(op) == SelectSeq(tool_log, LAMBDA r : r.op = op)

\* the runs of one kind whose item was extracted and published
OkRuns(op) == SelectSeq(tool_log, LAMBDA r : r.op = op /\ r.ok)

\* the item numbers of a sequence of runs are 0, 1, 2, ... in this order
InLoopOrder(runs) == \A n \in 1..Len(runs) : runs[n].arg = n - 1

\* C13: generate_thumbnails attempts each of the five timestamps exactly once,
\* in order, whatever failed before; it never raises (the only exception after
\* a successful probe comes from the "completed" update, after both loops);
\* and the list it builds is exactly the options of the timestamps that were
\* extracted and published, in timestamp order: 0 to 5 entries, 4 when only
\* the third timestamp fails.
C13_ThumbnailsIsolated ==
    LET runs == Runs("thumbnail")
        ok == OkRuns("thumbnail")
    IN  /\ Len(runs) = thumb_i /\ InLoopOrder(runs)
        /\ (ProbeSucceeded /\ pc # "thumbnails") => Len(runs) = Len(TimestampTenths)
        /\ (ProbeSucceeded /\ exc.set) =>
               (exc.origin \in { "completed_update", "failed_update" }
                /\ rung_i = Len(formats))
        /\ Len(thumbnails) = Len(ok) /\ Len(thumbnails) \in 0..5
        /\ \A n \in 1..Len(ok) :
              thumbnails[n] = ThumbnailOption(file_name, metadata, ok[n].arg)
        /\ (Len(runs) = 5 /\ \A n \in 1..5 : runs[n].ok <=> n # 3) =>
               Len(thumbnails) = 4

\* C13 witness: only the third timestamp failed and the invocation went on to
\* record "completed" with the four other options.
C13_Witness ==
    /\ Finished /\ Len(Runs("thumbnail")) = 5
    /\ \A n \in 1..5 : Runs("thumbnail")[n].ok <=> n # 3
    /\ Len(thumbnails) = 4
    /\ \E j \in Matching(jobs, file_name) :
          j.status = "completed" /\ j.thumbnail_options = thumbnails

\* C14: transcode_video attempts both rungs of the ladder exactly once, in
\* ladder order, whatever the outcome of the other rung; it never raises; and
\* the list it builds is exactly the descriptors of the rungs that were
\* encoded and published: 0 to 2 entries.
C14_RungsIsolated ==
    LET runs == Runs("transcode")
        ok == OkRuns("transcode")
    IN  /\ Len(runs) = rung_i /\ InLoopOrder(runs)
        /\ (rung_i > 0 /\ pc # "transcode") => Len(runs) = Len(formats)
        /\ (rung_i > 0 /\ exc.set) =>
               (exc.origin \in { "completed_update", "failed_update" }
                /\ rung_i = Len(formats))
        /\ Len(processed_formats) = Len(ok) /\ Len(processed_formats) \in 0..2
        /\ \A n \in 1..Len(ok) :
              processed_formats[n] = FormatDescriptor(file_name, formats[ok[n].arg + 1])

\* C14 witness: the first rung failed, the second was still encoded and
\* published, and the record holds that one format.
C14_Witness ==
    /\ Finished /\ Len(Runs("transcode")) = 2
    /\ ~Runs("transcode")[1].ok /\ Runs("transcode")[2].ok
    /\ Len(processed_formats) = 1 /\ processed_formats[1].format = "mp4_480p"
    /\ \E j \in Matching(jobs, file_name) :
          j.status = "completed" /\ j.processed_formats = processed_formats

----------------------------------------------------------------------------
(* The order of the steps of one invocation.                                *)

\* the runs of the producers: everything but the availability check
ProducerRuns == SelectSeq(tool_log, LAMBDA r : r.op # "-version")

\* one probe, the five timestamps, the two rungs
ExpectedRuns ==
    << [ op |-> "probe", arg |-> 0 ] >>
    \o [ n \in 1..Len(TimestampTenths) |-> [ op |-> "thumbnail", arg |-> n - 1 ] ]
    \o [ n \in 1..Len(formats) |-> [ op |-> "transcode", arg |-> n - 1 ] ]

\* C19: within one invocation the steps occur in the order download, probe,
\* thumbnails, transcoding, status update, scratch removal, each after the
\* previous one has returned, and no producer runs twice: the producers' runs
\* are a prefix of probe, timestamps 0..4, rungs 0..1; the probe runs after the
\* one download; a status update is issued only after the producers are done
\* and before the scratch directory is removed, which is the last step.
C19_StepsInOrder ==
    LET runs == ProducerRuns IN
    /\ Len(runs) <= Len(ExpectedRuns)
    /\ \A n \in 1..Len(runs) :
          runs[n].op = ExpectedRuns[n].op /\ runs[n].arg = ExpectedRuns[n].arg
    /\ downloads <= 1
    /\ runs # << >> => (downloads = 1 /\ temp_dir = "tmp")
    /\ downloads = 1 => temp_dir = "tmp"
    /\ (runs # << >> /\ ~runs[1].ok) => Len(runs) = 1
    /\ calls # << >> =>
          /\ pc \in { "except", "finally", "done" }
          /\ Len(calls) <= 2
          /\ StatusOf(calls[1]) = "completed" => Len(runs) = Len(ExpectedRuns)
    /\ pc \in { "finally", "done" } => calls # << >> \/ result = "returned"
    /\ (temp_dir = "tmp" /\ temp_dir \notin disk) => pc = "done"
    /\ (Finished /\ temp_dir = "tmp") => calls # << >>

\* C19 witness: an invocation ran every step once and has removed its
\* scratch directory.
C19_Witness ==
    /\ Finished /\ downloads = 1
    /\ Len(ProducerRuns) = Len(ExpectedRuns)
    /\ Len(calls) = 1 /\ StatusOf(calls[1]) = "completed"
    /\ temp_dir = "tmp" /\ disk = {}

----------------------------------------------------------------------------
(* The fallback write applied again.                                        *)

\* the documents of a collection without their updated_at
WithoutUpdatedAt(coll) ==
    { [ f \in DOMAIN j \ { "updated_at" } |-> j[f] ] : j \in coll }

\* the last update was "completed" and its fallback write matched the record
CompletedByFallback ==
    /\ calls # << >> /\ StatusOf(LastCall) = "completed"
    /\ LastCall.mongo # << >>
    /\ LET m == LastCall.mongo[Len(LastCall.mongo)] IN
          ~m.raised /\ m.matched_count = 1

\* C15: once update_via_mongodb has applied the "completed" payload, applying
\* the same payload again changes no field but updated_at, which is refreshed:
\* the lists are overwritten, not extended.
C15_FallbackIdempotent ==
    CompletedByFallback =>
        LET again == update_via_mongodb(jobs, file_name, LastCall.update_data,
                                        now + 1, "ok")
        IN  /\ ~again.raised /\ again.args.matched_count = 1
            /\ WithoutUpdatedAt(again.coll) = WithoutUpdatedAt(jobs)
            /\ \A j \in Matching(again.coll, file_name) :
                  /\ j.updated_at = now + 1
                  /\ j.thumbnail_options = thumbnails
                  /\ j.processed_formats = processed_formats
                  /\ j.metadata = metadata
                  /\ j.status = "completed"

\* C15 witness: the fallback wrote a "completed" payload with five thumbnail
\* options and two formats into the matching record.
C15_Witness ==
    /\ CompletedByFallback
    /\ Len(thumbnails) = 5 /\ Len(processed_formats) = 2
    /\ \E j \in Matching(jobs, file_name) : j.thumbnail_options = thumbnails

----------------------------------------------------------------------------
(* Job records over several events (SpecEvents).                            *)

TerminalStatuses == { "completed", "failed" }

\* the position of a status in pending -> started -> processing -> terminal
StatusRank(status) ==
    CASE status = "pending" -> 0
      [] status = "started" -> 1
      [] status = "processing" -> 2
      [] status \in TerminalStatuses -> 3

\* C11 as stated: over any sequence of invocations and status writes, the
\* status of a job record only advances, and a record that is "completed" or
\* "failed" never gets a different status.
C11_TerminalIsFinal ==
    [][ \A j \in jobs : \A j2 \in jobs' :
           j2.job_id = j.job_id =>
              /\ StatusRank(j2.status) >= StatusRank(j.status)
              /\ j.status \in TerminalStatuses => j2.status = j.status ]_vars

\* C12 as stated: in every reachable job record, error_message is empty
\* unless status is "failed"; a "completed" record carries no message left
\* by an earlier failed invocation.
C12_ErrorMessageOnlyWhenFailed ==
    \A j \in jobs : j.status # "failed" => j.error_message = EmptyStr

\* C16 as stated: invocations for different source keys never publish the same
\* derived blob key, and an invocation updates no job record but the one of
\* its own source key.
C16_NoSharedDerivedKey ==
    /\ \A w1 \in writes : \A w2 \in writes :
          w1.source # w2.source => w1.blob # w2.blob
    /\ \A i \in 1..Len(calls) : \A n \in 1..Len(calls[i].mongo) :
          calls[i].mongo[n].original_file = file_name
    /\ \A j \in jobs : \A j0 \in jobs0 :
          (j.job_id = j0.job_id /\ j # j0) => j.original_file = file_name

\* C17 as stated: the job record of an uploaded video exists before its
\* pipeline runs, so every status update the invocation issues finds the
\* matching record, the terminal status is not lost, and no job is "pending"
\* once its invocation has finished.
C17_RecordExistsBeforePipeline ==
    /\ pc \notin { "verify", "filter" } => Matching(jobs, file_name) # {}
    /\ \A i \in 1..Len(calls) : \A n \in 1..Len(calls[i].mongo) :
          ~calls[i].mongo[n].raised => calls[i].mongo[n].matched_count = 1
    /\ (Finished /\ calls # << >> /\ ~LastCall.raised) =>
          \A j \in Matching(jobs, file_name) : j.status = StatusOf(LastCall)

\* the invocation has finished, its "completed" update found no record, and
\* the record process_video_file inserted afterwards is "pending"
C17_LostUpdate ==
    /\ Finished /\ Len(calls) = 1 /\ StatusOf(calls[1]) = "completed"
    /\ ZeroMatch(1) /\ result = "returned"
    /\ \E j \in Matching(jobs, file_name) : j.status = "pending"

\* the fields a "failed" update must leave alone
AssetFields ==
    { "metadata", "thumbnail_options", "processed_formats", "selected_thumbnail_id" }

\* record j2 is record j with at most the given fields changed
SameExcept(j, j2, fields) ==
    /\ DOMAIN j2 = DOMAIN j
    /\ \A f \in DOMAIN j \ fields : j2[f] = j[f]

\* C20: a "failed" status update, through the fallback or through the by-file
\* handler, changes status, error_message and updated_at only, so metadata,
\* thumbnail_options, processed_formats and selected_thumbnail_id stay as they
\* were; and a step of the pipeline that changes one of these is the
\* "completed" update, which writes the whole payload.
C20_FailedUpdateFrame ==
    [][ /\ pc = "except" =>
             /\ \A j \in jobs : \A j2 \in jobs' :
                   j2.job_id = j.job_id =>
                      SameExcept(j, j2, { "status", "error_message", "updated_at" })
             /\ LET h == update_video_processing_job_by_file(
                              jobs, file_name, FailedUpdate(exc), now, "ok")
                IN  \A j \in jobs : \A j2 \in h.coll :
                       j2.job_id = j.job_id =>
                          SameExcept(j, j2, { "status", "error_message", "updated_at" })
        /\ \A j \in jobs : \A j2 \in jobs' :
              (j2.job_id = j.job_id /\ \E f \in AssetFields : j2[f] # j[f]) =>
                 /\ pc = "update_completed"
                 /\ j2.original_file = file_name
                 /\ j2.status = "completed"
                 /\ j2.metadata = metadata
                 /\ j2.thumbnail_options = thumbnails
                 /\ j2.processed_formats = processed_formats ]_vars

\* C20 witness: a record that a first invocation completed, with five
\* thumbnail options and two formats, was set to "failed" by a second one and
\* still holds them.
C20_Witness ==
    /\ invocation = 2 /\ Finished /\ Len(calls) = 1 /\ StatusOf(calls[1]) = "failed"
    /\ \E j \in Matching(jobs, file_name) :
          /\ j.status = "failed" /\ j.error_message # EmptyStr
          /\ Len(j.thumbnail_options) = 5 /\ Len(j.processed_formats) = 2
          /\ j.metadata.width = 1920

----------------------------------------------------------------------------
(* The status API.                                                          *)

\* the request of call i reached the backend, whose datastore worked
ReachedBackend(i) == calls[i].endpoint # "none" /\ calls[i].status_code # 500

\* C18 as stated: when the status API is reachable and a job record exists for
\* original_file, the PATCH to /video-processing/jobs/by-file is dispatched to
\* update_video_processing_job_by_file, answered 200, and the fallback is not
\* invoked.
C18_DispatchedToByFile ==
    \A i \in 1..Len(calls) :
       (ReachedBackend(i) /\ Matching(jobs0, calls[i].original_file) # {}) =>
          /\ calls[i].endpoint = "update_video_processing_job_by_file"
          /\ calls[i].status_code = 200
          /\ calls[i].mongo = << >>

----------------------------------------------------------------------------
(* The writers of a job record (SpecApi): the update by job_id, the update   *)
(* by original_file, the fallback write and the thumbnail selection, applied *)
(* in any order to the records upload acceptance created.                    *)

\* writes in one behaviour
MaxApiWrites == 3

\* select_thumbnail without "updated_at" in its $set
select_thumbnail_NoTimestamp(coll, job_id, thumbnail_id, t, m) ==
    LET r == update_one(coll, "job_id", job_id,
                        [ selected_thumbnail_id |-> thumbnail_id ])
    IN  IF m = "error" THEN [ coll |-> coll, status_code |-> 500 ]
        ELSE IF r.matched_count = 0 THEN [ coll |-> coll, status_code |-> 404 ]
        ELSE [ coll |-> r.coll, status_code |-> 200 ]

\* select_thumbnail, the handler of POST /video-processing/jobs/{job_id}/select-thumbnail
select_thumbnail(coll, job_id, thumbnail_id, t, m) ==
    LET r == update_one(coll, "job_id", job_id,
                        [ selected_thumbnail_id |-> thumbnail_id, updated_at |-> t ])
    IN  IF m = "error" THEN [ coll |-> coll, status_code |-> 500 ]
        ELSE IF r.matched_count = 0 THEN [ coll |-> coll, status_code |-> 404 ]
        ELSE [ coll |-> r.coll, status_code |-> 200 ]

\* job ids a request may name: the two jobs, and one that names no job
RequestJobIds == { "job-1", "job-2", "by-file" }

\* bodies of VideoProcessingJobUpdate a client may send
RequestBodies ==
    { [ status |-> "processing" ],
      [ status |-> "failed", error_message |-> <<"transcoder crashed">> ],
      [ selected_thumbnail_id |-> "thumb_2s" ] }

\* payloads process_video passes to update_processing_job
PipelinePayloads ==
    { FailedUpdate(Exc("download", <<"download failed">>)),
      CompletedUpdate([ duration_seconds |-> 20, width |-> 1920, height |-> 1080,
                        file_size |-> 1000, content_type |-> "video/mp4",
                        upload_time |-> 1 ],
                      << ThumbnailOption(ClipMp4, [ duration_seconds |-> 20 ], 0) >>,
                      << FormatDescriptor(ClipMp4, formats[1]) >>) }

\* a write as last_write records it: what was written to, when, and whether
\* a record matched and the datastore answered
WriteOf(op, field, value, t, matched) ==
    [ op |-> op, field |-> field, value |-> value, time |-> t, matched |-> matched ]

\* the variables of process_video and of generate_unique_slug
other_vars ==
    << file_name, ffprobe, pc, temp_dir, disk, probe_out, metadata, thumbnails,
       thumb_i, processed_formats, rung_i, exc, caught, result, jobs0, blobs,
       tool_log, downloads, calls, invocation, inserting, item_outcomes, writes,
       slug, pending >>

InitApi ==
    /\ file_name = ClipMp4
    /\ ffprobe = "ok"
    /\ jobs = { PendingJob(ClipMp4), PendingJob(ClipMov) }
    /\ jobs0 = jobs
    /\ pc = "done"
    /\ temp_dir = "None"
    /\ disk = {}
    /\ probe_out = NoProbe
    /\ metadata = NoMetadata
    /\ thumbnails = << >>
    /\ thumb_i = 0
    /\ processed_formats = << >>
    /\ rung_i = 0
    /\ exc = NoExc
    /\ caught = NoExc
    /\ result = "returned"
    /\ blobs = { ClipMp4, ClipMov }
    /\ now = 1
    /\ tool_log = << >>
    /\ downloads = 0
    /\ calls = << >>
    /\ invocation = 1
    /\ inserting = {}
    /\ item_outcomes = ItemOutcomes
    /\ writes = {}
    /\ last_write = NoWrite
    /\ slug = NoSlug
    /\ pending = {}

\* PATCH /video-processing/jobs/{job_id}
UpdateByJobId ==
    /\ now <= MaxApiWrites
    /\ \E job_id \in RequestJobIds, body \in RequestBodies, m \in MongoOutcomes :
         LET h == update_video_processing_job(jobs, job_id, body, now, m) IN
         /\ jobs' = h.coll
         /\ last_write' = WriteOf("update_video_processing_job", "job_id", job_id,
                                   now, h.status_code = 200)
    /\ now' = now + 1
    /\ UNCHANGED other_vars

\* update_video_processing_job_by_file called with a payload of the pipeline
UpdateByFile ==
    /\ now <= MaxApiWrites
    /\ \E k \in { ClipMp4, ClipMov, DocPdf }, data \in PipelinePayloads,
          m \in MongoOutcomes :
         LET h == update_video_processing_job_by_file(jobs, k, data, now, m) IN
         /\ jobs' = h.coll
         /\ last_write' = WriteOf("update_video_processing_job_by_file",
                                   "original_file", k, now, h.status_code = 200)
    /\ now' = now + 1
    /\ UNCHANGED other_vars

\* update_via_mongodb called with a payload of the pipeline
FallbackWrite ==
    /\ now <= MaxApiWrites
    /\ \E k \in { ClipMp4, ClipMov, DocPdf }, data \in PipelinePayloads,
          m \in MongoOutcomes :
         LET u == update_via_mongodb(jobs, k, data, now, m) IN
         /\ jobs' = u.coll
         /\ last_write' = WriteOf("update_via_mongodb", "original_file", k, now,
                                   ~u.raised /\ u.args.matched_count = 1)
    /\ now' = now + 1
    /\ UNCHANGED other_vars

\* POST /video-processing/jobs/{job_id}/select-thumbnail
SelectThumbnail ==
    /\ now <= MaxApiWrites
    /\ \E job_id \in RequestJobIds, thumbnail_id \in { "thumb_2s", "custom" },
          m \in MongoOutcomes :
         LET h == select_thumbnail(jobs, job_id, thumbnail_id, now, m) IN
         /\ jobs' = h.coll
         /\ last_write' = WriteOf("select_thumbnail", "job_id", job_id, now,
                                   h.status_code = 200)
    /\ now' = now + 1
    /\ UNCHANGED other_vars

NextApi ==
    \/ UpdateByJobId
    \/ UpdateByFile
    \/ FallbackWrite
    \/ SelectThumbnail

SpecApi == InitApi /\ [][NextApi]_vars

\* what identifies a record and when it was created
Identity(coll) ==
    { [ job_id |-> j.job_id, original_file |-> j.original_file,
        created_at |-> j.created_at ] : j \in coll }

----------------------------------------------------------------------------
(* Output paths of one invocation.                                          *)

\* the files one invocation writes into its scratch directory
ScratchPaths(k) ==
    << PathString(InputFile) >>
    \o [ n \in 1..Len(TimestampTenths) |-> PathString(ThumbnailFile(k, n - 1)) ]
    \o [ n \in 1..Len(formats) |-> PathString(OutputFile(k, formats[n])) ]

\* the blob keys one invocation uploads to
UploadedBlobKeys(k) ==
    [ n \in 1..Len(TimestampTenths) |-> PathString(ThumbnailBlob(k, n - 1)) ]
    \o [ n \in 1..Len(formats) |-> PathString(ProcessedBlob(k, formats[n])) ]

PairwiseDistinct(seq) ==
    \A a, b \in 1..Len(seq) : a # b => seq[a] # seq[b]

\* C22: within one invocation the eight scratch paths (input file, five
\* thumbnails, two rungs) are pairwise distinct and so are the seven blob
\* keys, for every source key; every upload that succeeded went to a key no
\* earlier upload of the invocation had used.
C22_OutputPathsDistinct ==
    /\ \A k \in TriggerKeys :
          /\ Len(ScratchPaths(k)) = 8 /\ PairwiseDistinct(ScratchPaths(k))
          /\ Len(UploadedBlobKeys(k)) = 7 /\ PairwiseDistinct(UploadedBlobKeys(k))
    /\ Cardinality({ PathString(w.blob) : w \in writes })
          = Len(OkRuns("thumbnail")) + Len(OkRuns("transcode"))

\* C22 witness: the invocation for uploads/input_video.mp4 has published all
\* seven derived assets.
C22_Witness ==
    /\ Finished /\ file_name = InputVideoMp4
    /\ Len(OkRuns("thumbnail")) = 5 /\ Len(OkRuns("transcode")) = 2
    /\ Cardinality(writes) = 7

----------------------------------------------------------------------------
(* The outputs of a run in which every item succeeds.                       *)

\* every timestamp and every rung was extracted and published
AllItemsOk ==
    /\ Len(OkRuns("thumbnail")) = Len(TimestampTenths)
    /\ Len(OkRuns("transcode")) = Len(formats)

\* the options expected for a 20 second source with the given stem
Expected20sThumbnails(stem) ==
    [ n \in 1..5 |->
        [ id |-> << "thumb_", << 2, 6, 10, 14, 18 >>[n], "s" >>,
          url |-> [ prefix |-> "/uploads/",
                    key |-> Key(<<"thumbnails">>,
                                stem \o << "_thumb_", << "0", "1", "2", "3", "4" >>[n] >>,
                                ".jpg") ],
          timestamp_tenths |-> << 20, 60, 100, 140, 180 >>[n],
          is_custom |-> FALSE ] ]

\* the descriptors expected for the given stem
ExpectedFormats(stem) ==
    << [ format |-> "mp4_720p",
         url |-> [ prefix |-> "/uploads/",
                   key |-> Key(<<"processed">>, stem \o << "_720p" >>, ".mp4") ],
         width |-> 1280, height |-> 720 ],
       [ format |-> "mp4_480p",
         url |-> [ prefix |-> "/uploads/",
                   key |-> Key(<<"processed">>, stem \o << "_480p" >>, ".mp4") ],
         width |-> 854, height |-> 480 ] >>

\* C23: when every item succeeds, generate_thumbnails returns five options in
\* order, at 10%, 30%, 50%, 70% and 90% of the duration, with id
\* thumb_<whole seconds>s, is_custom false and url
\* /uploads/thumbnails/<stem>_thumb_<i>.jpg (for 20 seconds: 2, 6, 10, 14, 18);
\* transcode_video returns the 720p then the 480p descriptor; and the status
\* update issued is "completed" with these lists, written to the matching
\* record when the update returns.
C23_HappyPathOutputs ==
    (Finished /\ ProbeSucceeded /\ AllItemsOk) =>
        /\ Len(thumbnails) = 5
        /\ \A n \in 1..5 :
              /\ 10 * thumbnails[n].timestamp_tenths
                    = << 10, 30, 50, 70, 90 >>[n] * metadata.duration_seconds
              /\ thumbnails[n].id
                    = << "thumb_", thumbnails[n].timestamp_tenths \div 10, "s" >>
              /\ ~thumbnails[n].is_custom
        /\ metadata.duration_seconds = 20 =>
              thumbnails = Expected20sThumbnails(file_name.stem)
        /\ processed_formats = ExpectedFormats(file_name.stem)
        /\ StatusOf(calls[1]) = "completed"
        /\ calls[1].update_data.thumbnail_options = thumbnails
        /\ calls[1].update_data.processed_formats = processed_formats
        /\ ~calls[1].raised =>
              /\ Len(calls) = 1
              /\ \A j \in Matching(jobs, file_name) :
                    /\ j.status = "completed"
                    /\ j.thumbnail_options = Expected20sThumbnails(file_name.stem)
                          \/ metadata.duration_seconds # 20
                    /\ j.processed_formats = ExpectedFormats(file_name.stem)

\* C23 witness: a 20 second source, every item succeeded, and the job record
\* holds "completed" with the five options and the two descriptors.
C23_Witness ==
    /\ Finished /\ ProbeSucceeded /\ AllItemsOk
    /\ metadata.duration_seconds = 20
    /\ \E j \in Matching(jobs, file_name) :
          /\ j.status = "completed"
          /\ Len(j.thumbnail_options) = 5 /\ Len(j.processed_formats) = 2
          /\ j.thumbnail_options[5].id = << "thumb_", 18, "s" >>

----------------------------------------------------------------------------
(* The shapes of probe output that fail the probe.                          *)

HasVideoStream(probe) ==
    \E i \in 1..Len(probe.streams) : probe.streams[i].codec_type = "video"

\* C24: on every output of the probe tool, extract_video_metadata returns
\* metadata, with 0 for a missing duration, width, height or size, unless the
\* output has no stream with codec_type "video"; only then does it raise.
C24_OnlyMissingVideoIsFatal ==
    (probe_out # NoProbe /\ probe_out.kind = "data") =>
        /\ HasVideoStream(probe_out) =>
              /\ metadata # NoMetadata
              /\ metadata.duration_seconds = Get(probe_out.format.duration, 0)
              /\ metadata.file_size = Get(probe_out.format.size, 0)
        /\ ~HasVideoStream(probe_out) =>
              /\ metadata = NoMetadata
              /\ caught.set => caught.origin = "probe"

----------------------------------------------------------------------------
(* The status updates of one invocation.                                    *)

\* C25: within one invocation no "failed" status update is issued after a
\* "completed" status update, also when the "completed" update's primary
\* call fails and its fallback write raises.
C25_NoFailedAfterCompleted ==
    \A i, j \in 1..Len(calls) :
        (i < j /\ StatusOf(calls[i]) = "completed") => StatusOf(calls[j]) # "failed"

\* the invocation passed the availability check and the input filter
PassedChecks == verify_ffmpeg_availability(ffprobe) /\ ~Skipped(file_name)

\* a terminal status update for the event's key has been attempted
TerminalUpdateAttempted ==
    \E i \in 1..Len(calls) :
        /\ StatusOf(calls[i]) \in { "completed", "failed" }
        /\ calls[i].original_file = file_name

\* C26: an invocation that passes the availability check and the input filter
\* has attempted a "completed" or "failed" update for its key by the time it
\* returns or raises, and it does return or raise when every external call
\* returns or throws.
C26_TerminalUpdateAttempted ==
    /\ [](Finished /\ PassedChecks => TerminalUpdateAttempted)
    /\ (pc = "mkdtemp") ~> (Finished /\ TerminalUpdateAttempted)

\* C26 witness: the scratch directory could not be created, the earliest
\* failure after the filter, and the one update issued is "failed".
C26_Witness ==
    /\ Finished /\ PassedChecks /\ temp_dir = "None"
    /\ Len(calls) = 1 /\ StatusOf(calls[1]) = "failed"
    /\ caught.origin = "mkdtemp"

----------------------------------------------------------------------------
(* Thumbnail ids.                                                           *)

\* C27: the ids of the options generate_thumbnails returns are pairwise
\* distinct, for every duration the prober returns (also below 5 seconds and
\* the 0 of a missing duration field).
C27_ThumbnailIdsDistinct ==
    \A a, b \in 1..Len(thumbnails) :
        a # b => thumbnails[a].id # thumbnails[b].id

----------------------------------------------------------------------------
(* The trigger chain (SpecTrigger): the bucket raises a finalization event   *)
(* for every object written to it, the derived blobs included, and each      *)
(* event is one invocation of process_video.                                *)

\* invocations in one behaviour
MaxInvocations == 10

InitTrigger ==
    /\ file_name \in UploadedKeys
    /\ ffprobe = "ok"
    /\ jobs \in InitialCollections
    /\ jobs0 = jobs
    /\ pc = "verify"
    /\ temp_dir = "None"
    /\ disk = {}
    /\ probe_out = NoProbe
    /\ metadata = NoMetadata
    /\ thumbnails = << >>
    /\ thumb_i = 0
    /\ processed_formats = << >>
    /\ rung_i = 0
    /\ exc = NoExc
    /\ caught = NoExc
    /\ result = "running"
    /\ blobs = { file_name }
    /\ now = 1
    /\ tool_log = << >>
    /\ downloads = 0
    /\ calls = << >>
    /\ invocation = 1
    /\ inserting = {}
    /\ item_outcomes = HealthyOutcomes
    /\ writes = {}
    /\ last_write = NoWrite
    /\ slug = NoSlug
    /\ pending = {}

\* the previous invocation is over and the finalization event of a derived
\* blob is delivered
DeliverDerived ==
    /\ pc = "done"
    /\ invocation < MaxInvocations
    /\ invocation' = invocation + 1
    /\ \E k \in pending :
         /\ file_name' = k
         /\ pending' = pending \ { k }
    /\ jobs0' = jobs
    /\ pc' = "verify"
    /\ temp_dir' = "None"
    /\ probe_out' = NoProbe
    /\ metadata' = NoMetadata
    /\ thumbnails' = << >>
    /\ thumb_i' = 0
    /\ processed_formats' = << >>
    /\ rung_i' = 0
    /\ exc' = NoExc
    /\ caught' = NoExc
    /\ result' = "running"
    /\ tool_log' = << >>
    /\ downloads' = 0
    /\ calls' = << >>
    /\ UNCHANGED << ffprobe, disk, jobs, blobs, now, inserting, last_write, slug,
                    item_outcomes, writes >>

NextTrigger ==
    \/ Next
    \/ DeliverDerived

\* every event is eventually handled and every call returns or throws
SpecTrigger == InitTrigger /\ [][NextTrigger]_vars /\ WF_vars(NextTrigger)

\* the key lies under thumbnails/ or processed/
IsDerivedKey(k) == Len(k.dir) >= 1 /\ k.dir[1] \in { "thumbnails", "processed" }

\* C28: every blob process_video uploads has a key under thumbnails/ or
\* processed/, the event for such a key is rejected by the input filter
\* (nothing is downloaded, produced, uploaded or updated), so one source
\* upload leads to at most 1 + 5 + 2 invocations and the chain of events ends.
C28_NoSelfTrigger ==
    /\ [] /\ \A w \in writes :
               /\ IsDerivedKey(w.blob) /\ Skipped(w.blob)
               /\ w.source \in UploadedKeys
          /\ \A k \in pending : IsDerivedKey(k) /\ Skipped(k)
          /\ invocation > 1 =>
                /\ IsDerivedKey(file_name)
                /\ pc \in { "verify", "filter", "done" }
                /\ calls = << >> /\ downloads = 0 /\ temp_dir = "None"
                /\ \A i \in 1..Len(tool_log) : tool_log[i].op = "-version"
          /\ invocation <= 1 + Len(TimestampTenths) + Len(formats)
    /\ <>[](pc = "done" /\ pending = {})

\* C28 witness: the events of all seven derived blobs have been delivered and
\* skipped, and none is left.
C28_Witness ==
    /\ pc = "done" /\ pending = {} /\ invocation = 8
    /\ Cardinality(writes) = 7 /\ Cardinality(blobs) = 8
    /\ IsDerivedKey(file_name) /\ result = "returned"

----------------------------------------------------------------------------
(* The set of job records.                                                  *)

JobIds(coll) == { j.job_id : j \in coll }

\* the by-file handler and the fallback write applied to a collection with a
\* payload of the pipeline leave the set of records as it is, and leave the
\* collection as it is when no record has the key
UpdatesKeepRecords(coll, t) ==
    \A k \in TriggerKeys, data \in PipelinePayloads, m \in MongoOutcomes :
        LET h == update_video_processing_job_by_file(coll, k, data, t, m).coll
            u == update_via_mongodb(coll, k, data, t, m).coll
        IN  /\ Cardinality(h) = Cardinality(coll) /\ JobIds(h) = JobIds(coll)
            /\ Cardinality(u) = Cardinality(coll) /\ JobIds(u) = JobIds(coll)
            /\ Matching(coll, k) = {} => (h = coll /\ u = coll)

\* C29: no step of process_video, and no status update it issues through the
\* by-file handler or the fallback write, creates or deletes a job record:
\* every step other than the insertion by upload acceptance leaves the set of
\* job ids unchanged, and an update whose key matches no record leaves the
\* collection unchanged.
C29_PipelineKeepsRecords ==
    [][ /\ inserting' = inserting =>
              /\ Cardinality(jobs') = Cardinality(jobs)
              /\ JobIds(jobs') = JobIds(jobs)
              /\ Matching(jobs, file_name) = {} => jobs' = jobs
        /\ UpdatesKeepRecords(jobs, now) ]_vars

\* C29 witness: two uploads were processed one after the other, both records
\* were updated to "completed", and the collection holds these two records.
C29_Witness ==
    /\ Finished /\ invocation = 2 /\ inserting = {}
    /\ JobIds(jobs) = { JobIdOf(ClipMp4), JobIdOf(ClipMov) }
    /\ \A j \in jobs : j.status = "completed"

----------------------------------------------------------------------------
(* Slugs (SpecSlug): slugify and generate_unique_slug.  A string is the     *)
(* sequence of its characters.                                              *)

\* text.lower() on the characters that occur
LowerChar(c) == IF c = "A" THEN "a" ELSE IF c = "B" THEN "b" ELSE c

\* the characters re.sub(r"[^a-z0-9-]", "", text) keeps
SlugChars == { "a", "b", "0", "1", "2", "3", "4", "5", "6", "7", "8", "9", "-" }

\* the characters \s matches
Whitespace == { " ", "\t" }

RECURSIVE ReplaceWhitespace(_)
\* re.sub(r"\s+", "-", text): each maximal run of whitespace becomes one hyphen
ReplaceWhitespace(text) ==
    IF text = << >> THEN << >>
    ELSE IF Head(text) \in Whitespace
    THEN IF Len(text) > 1 /\ text[2] \in Whitespace
         THEN ReplaceWhitespace(Tail(text))
         ELSE << "-" >> \o ReplaceWhitespace(Tail(text))
    ELSE << Head(text) >> \o ReplaceWhitespace(Tail(text))

RECURSIVE CollapseHyphens(_)
\* re.sub(r"-+", "-", text)
CollapseHyphens(text) ==
    IF text = << >> THEN << >>
    ELSE IF Head(text) = "-" /\ Len(text) > 1 /\ text[2] = "-"
    THEN CollapseHyphens(Tail(text))
    ELSE << Head(text) >> \o CollapseHyphens(Tail(text))

RECURSIVE Strip(_)
\* text.strip("-")
Strip(text) ==
    IF text = << >> THEN << >>
    ELSE IF Head(text) = "-" THEN Strip(Tail(text))
    ELSE IF text[Len(text)] = "-" THEN Strip(SubSeq(text, 1, Len(text) - 1))
    ELSE text

slugify(text) ==
    LET lowered == [ i \in 1..Len(text) |-> LowerChar(text[i]) ]
        hyphenated == ReplaceWhitespace(lowered)
        kept == SelectSeq(hyphenated, LAMBDA c : c \in SlugChars)
    IN  Strip(CollapseHyphens(kept))

\* str(count)
DigitChar(d) == << "0", "1", "2", "3", "4", "5", "6", "7", "8", "9" >>[d + 1]
Str(n) == IF n < 10 THEN << DigitChar(n) >>
          ELSE << DigitChar(n \div 10), DigitChar(n % 10) >>

\* existing_id=None
NoId == 0

\* a story document
Story(id, slug_, deleted) == [ id |-> id, slug |-> slug_, deleted |-> deleted ]

\* the stories the collection may hold
StoryPool ==
    { Story(1, << "a", "-", "b" >>, FALSE),
      Story(2, << "a", "-", "b", "-", "2" >>, FALSE),
      Story(3, << "a", "-", "b", "-", "3" >>, TRUE),
      Story(4, << "a", "-", "b", "-", "3" >>, FALSE),
      Story(5, << "b" >>, FALSE) }

\* titles: "A b", "a-b", "a  b!", "A-B 2", "!!", "b"
Titles ==
    { << "A", " ", "b" >>,
      << "a", "-", "b" >>,
      << "a", " ", "\t", "b", "!" >>,
      << "A", "-", "B", " ", "2" >>,
      << "!", "!" >>,
      << "b" >> }

\* the query of lines 42-44
Query(slug_, existing_id) ==
    [ slug |-> slug_, deleted_ne |-> TRUE,
      id_ne |-> IF existing_id # NoId THEN { existing_id } ELSE {} ]

\* find_one with a query that never excludes the story being updated
find_one_NoExclusion(stories, query) ==
    { d \in stories : d.slug = query.slug /\ d.deleted # query.deleted_ne }

\* collection.find_one(query): the documents that match (None when empty)
find_one(stories, query) ==
    { d \in stories : /\ d.slug = query.slug
                      /\ d.deleted # query.deleted_ne
                      /\ d.id \notin query.id_ne }

\* the variables generate_unique_slug does not touch
non_slug_vars ==
    << file_name, ffprobe, pc, temp_dir, disk, probe_out, metadata, thumbnails,
       thumb_i, processed_formats, rung_i, exc, caught, result, jobs, jobs0,
       blobs, now, tool_log, downloads, calls, invocation, inserting,
       item_outcomes, writes, last_write, pending >>

InitSlug ==
    /\ \E title \in Titles, existing_id \in { NoId, 1, 2 }, stories \in SUBSET StoryPool :
         slug = [ pc |-> "start", title |-> title, existing_id |-> existing_id,
                  stories |-> stories, base_slug |-> << >>, slug |-> << >>,
                  count |-> 0, lookups |-> << >> ]
    /\ file_name = ClipMp4
    /\ ffprobe = "ok"
    /\ jobs = {}
    /\ jobs0 = jobs
    /\ pc = "done"
    /\ temp_dir = "None"
    /\ disk = {}
    /\ probe_out = NoProbe
    /\ metadata = NoMetadata
    /\ thumbnails = << >>
    /\ thumb_i = 0
    /\ processed_formats = << >>
    /\ rung_i = 0
    /\ exc = NoExc
    /\ caught = NoExc
    /\ result = "returned"
    /\ blobs = {}
    /\ now = 1
    /\ tool_log = << >>
    /\ downloads = 0
    /\ calls = << >>
    /\ invocation = 1
    /\ inserting = {}
    /\ item_outcomes = ItemOutcomes
    /\ writes = {}
    /\ last_write = NoWrite
    /\ pending = {}

\* lines 36-38
SlugStart ==
    /\ slug.pc = "start"
    /\ slug' = [ slug EXCEPT !.pc = "loop", !.base_slug = slugify(slug.title),
                              !.slug = slugify(slug.title), !.count = 1 ]
    /\ UNCHANGED non_slug_vars

\* lines 40-52: one iteration of the loop
SlugLookup ==
    /\ slug.pc = "loop"
    /\ LET query == Query(slug.slug, slug.existing_id)
           existing == find_one(slug.stories, query)
       IN  slug' = IF existing = {}
                   THEN [ slug EXCEPT !.pc = "returned",
                                      !.lookups = Append(slug.lookups, query) ]
                   ELSE [ slug EXCEPT !.count = slug.count + 1,
                                      !.slug = slug.base_slug \o << "-" >>
                                               \o Str(slug.count + 1),
                                      !.lookups = Append(slug.lookups, query) ]
    /\ UNCHANGED non_slug_vars

NextSlug ==
    \/ SlugStart
    \/ SlugLookup

\* every lookup eventually answers
SpecSlug == InitSlug /\ [][NextSlug]_vars /\ WF_vars(NextSlug)

\* another story that is not deleted holds the slug
Taken(c) ==
    \E d \in slug.stories :
        d.slug = c /\ ~d.deleted /\ (slug.existing_id # NoId => d.id # slug.existing_id)

\* the N-th candidate: the slugified title, then <base>-2, <base>-3, ...
Candidate(n) ==
    IF n = 1 THEN slugify(slug.title)
    ELSE slugify(slug.title) \o << "-" >> \o Str(n)

\* the slugs of the titles, written out
ExpectedBase ==
    CASE slug.title = << "A", " ", "b" >> -> << "a", "-", "b" >>
      [] slug.title = << "a", "-", "b" >> -> << "a", "-", "b" >>
      [] slug.title = << "a", " ", "\t", "b", "!" >> -> << "a", "-", "b" >>
      [] slug.title = << "A", "-", "B", " ", "2" >> -> << "a", "-", "b", "-", "2" >>
      [] slug.title = << "!", "!" >> -> << >>
      [] slug.title = << "b" >> -> << "b" >>

\* C30: generate_unique_slug returns the slugified title when no other story
\* that is not deleted holds it, and otherwise <base>-N for the smallest
\* N >= 2 that no such story holds; it makes exactly one lookup per candidate
\* tried, in order, leaves the story being updated out of the comparison, and
\* returns after at most one lookup more than there are stories.
C30_FirstFreeCandidate ==
    /\ [] /\ slug.pc # "start" =>
               /\ slug.base_slug = ExpectedBase
               /\ slug.count <= Cardinality(slug.stories) + 1
               /\ slug.slug = Candidate(slug.count)
               /\ \A n \in 1..(slug.count - 1) : Taken(Candidate(n))
               /\ \A n \in 1..Len(slug.lookups) :
                     /\ slug.lookups[n].slug = Candidate(n)
                     /\ slug.lookups[n].id_ne
                           = (IF slug.existing_id = NoId THEN {} ELSE { slug.existing_id })
          /\ slug.pc = "loop" => Len(slug.lookups) = slug.count - 1
          /\ slug.pc = "returned" =>
               /\ ~Taken(slug.slug)
               /\ Len(slug.lookups) = slug.count
    /\ <>(slug.pc = "returned")

\* C30 witness: story 2, which holds a-b-2, is updated with the title "A b"
\* while another story holds a-b: the call tries a-b, finds it taken, tries
\* a-b-2, leaves story 2 itself out, and returns a-b-2 after two lookups.
C30_Witness ==
    /\ slug.pc = "returned" /\ slug.existing_id = 2
    /\ slug.title = << "A", " ", "b" >>
    /\ slug.slug = << "a", "-", "b", "-", "2" >>
    /\ Len(slug.lookups) = 2
    /\ \E d \in slug.stories : d.id = 2

====
